---- MODULE Spec2Model ----
(***************************************************************************)
(* selfdrive/debug/set_car_params.py: a one-shot script that picks a       *)
(* CarParams record (the first 'carParams' message of the first qlog of a  *)
(* route, or a fresh message when no route is given), serialises it and    *)
(* puts the bytes under three Params keys.                                 *)
(*                                                                         *)
(* Each invocation of the script is a process p that walks through the     *)
(* lines of the __main__ block.  Spec runs invocations one after another   *)
(* (single writer); SpecConc runs two invocations against the same store   *)
(* with their steps interleaved.                                           *)
(***************************************************************************)
EXTENDS Integers, Sequences, FiniteSets, TLC

\* ---------------------------------------------------------------- bounds
MaxSegs == 2        \* segments per route
MaxRecs == 2        \* log messages per segment
MaxRuns == 2        \* consecutive invocations in Spec

\* ------------------------------------------------------------- constants
Procs == {1, 2}
\* the keys of the Params store this script touches
KeySet == {"CarParams", "CarParamsCache", "CarParamsPersistent"}
\* line 18: the tuple the for loop walks
KeyOrderShort == <<"CarParams", "CarParamsCache">>
KeyOrderSwapped == <<"CarParamsCache", "CarParams", "CarParamsPersistent">>
KeyOrderLong == <<"CarParams", "CarParamsCache", "CarParamsPersistent", "CarParams">>
KeyOrder == <<"CarParams", "CarParamsCache", "CarParamsPersistent">>
Prog == "set_car_params.py"
\* names bound at module level by the import statements (lines 2-6)
Imports == {"sys", "Params", "Route", "LogReader"}

DefaultRecord == [mass |-> 0]
NoRecord == [mass |-> -1]
\* a qlog is a sequence of messages, each of one of these kinds
Kinds == {"carParams", "carState"}
SeqsUpTo(S, n) == UNION {[1..m -> S] : m \in 0..n}
SegmentData == SeqsUpTo(Kinds, MaxRecs)
RouteData == SeqsUpTo(SegmentData, MaxSegs)
\* routes of the interleaved runs: unresolvable, or one segment of one message
ConcRouteData == {<<>>} \cup {<< <<k>> >> : k \in Kinds}
\* every carParams message of every route carries a payload of its own
MassAt(name, s, n) == (IF name = "a" THEN 1000 ELSE 2000) + 100 * s + n

\* to_bytes: two little-endian bytes of the mass field
to_bytes(cp) == <<cp.mass % 256, (cp.mass \div 256) % 256>>
\* store content before the first run: nothing stored, or older records
InitStores ==
  {[k \in KeySet |-> <<>>],
   [k \in KeySet |-> IF k = "CarParams" THEN <<7, 0>>
                      ELSE IF k = "CarParamsCache" THEN <<8, 0>> ELSE <<9, 0>>]}

VARIABLES
  fs,          \* route name -> sequence of segments, each the messages of its qlog
  unwritable,  \* keys the store cannot write (permissions, disk)
  store,       \* Params: key -> bytes
  pc,          \* per invocation: position in the script
  argv,        \* per invocation: sys.argv
  r,           \* per invocation: the Route object (its name)
  cps,         \* per invocation: list of carParams messages
  CP,          \* per invocation: the chosen record
  cp_bytes,    \* per invocation: its serialisation
  idx,         \* per invocation: position of the for loop in KeyOrder
  err,         \* per invocation: the exception that ended it
  written,     \* per invocation: keys put so far, in order
  attempts,    \* per invocation: put calls made so far
  startStore,  \* per invocation: store content when it was launched
  prevArgv,    \* per invocation slot: argv of the previous run in that slot
  runs,        \* number of launches so far
  lastWriter,  \* key -> invocation that wrote it last (0: none)
  overlap      \* some invocation was launched while another was running

vars == <<fs, unwritable, store, pc, argv, r, cps, CP, cp_bytes, idx, err,
          written, attempts, startStore, prevArgv, runs, lastWriter, overlap>>
env == <<fs, unwritable>>
locals == <<r, cps, CP, cp_bytes, idx>>
ghosts == <<written, attempts, startStore, prevArgv, runs, lastWriter, overlap>>

Running(p) == pc[p] \notin {"idle", "done", "failed"}
Terminated(p) == pc[p] \in {"done", "failed"}

\* ---------------------------------------------------------- collaborators
\* Route(name): resolves a route name to its segments; raises when none
RouteResolves(name) == name \in DOMAIN fs /\ Len(fs[name]) > 0
\* Route.qlog_paths(): one path per segment, in segment order
qlog_paths(name) == [s \in 1..Len(fs[name]) |-> <<name, s>>]
\* LogReader(path): the messages of that qlog, in order
LogReader(path) ==
  [n \in 1..Len(fs[path[1]][path[2]]) |->
     [which |-> fs[path[1]][path[2]][n],
      carParams |-> IF fs[path[1]][path[2]][n] = "carParams"
                      THEN [mass |-> MassAt(path[1], path[2], n)]
                      ELSE NoRecord]]
\* Params().put(key, value): overwrite
ParamsPut(st, key, value) == [st EXCEPT ![key] = value]

\* ------------------------------------------------------------------ script
Raise(p, e) ==
  /\ pc' = [pc EXCEPT ![p] = "failed"]
  /\ err' = [err EXCEPT ![p] = e]

\* process start: sys.argv is set, nothing has run yet
Launch(p, args) ==
  /\ ~Running(p)
  /\ runs' = runs + 1
  /\ prevArgv' = [prevArgv EXCEPT ![p] = argv[p]]
  /\ argv' = [argv EXCEPT ![p] = <<Prog>> \o args]
  /\ pc' = [pc EXCEPT ![p] = "l9"]
  /\ err' = [err EXCEPT ![p] = "none"]
  /\ r' = [r EXCEPT ![p] = ""]
  /\ cps' = [cps EXCEPT ![p] = <<>>]
  /\ CP' = [CP EXCEPT ![p] = NoRecord]
  /\ cp_bytes' = [cp_bytes EXCEPT ![p] = <<>>]
  /\ idx' = [idx EXCEPT ![p] = 1]
  /\ written' = [written EXCEPT ![p] = <<>>]
  /\ attempts' = [attempts EXCEPT ![p] = 0]
  /\ startStore' = [startStore EXCEPT ![p] = store]
  /\ overlap' = (overlap \/ \E q \in Procs \ {p} : Running(q))
  /\ UNCHANGED <<env, store, lastWriter>>

\* lines 9-10: CP = None; if len(sys.argv) > 1
Branch(p) ==
  /\ pc[p] = "l9"
  /\ pc' = [pc EXCEPT ![p] = IF Len(argv[p]) > 1 THEN "l11" ELSE "l15"]
  /\ UNCHANGED <<env, store, argv, locals, err, ghosts>>

\* line 11: r = Route(sys.argv[1])
NewRouteLenient(p) ==
  /\ pc[p] = "l11"
  /\ r' = [r EXCEPT ![p] = argv[p][2]]
  /\ CP' = [CP EXCEPT ![p] = DefaultRecord]
  /\ pc' = [pc EXCEPT ![p] = IF RouteResolves(argv[p][2]) THEN "l12" ELSE "l17"]
  /\ UNCHANGED <<env, store, argv, cps, cp_bytes, idx, err, ghosts>>
NewRoute(p) ==
  /\ pc[p] = "l11"
  /\ IF RouteResolves(argv[p][2])
       THEN /\ r' = [r EXCEPT ![p] = argv[p][2]]
            /\ pc' = [pc EXCEPT ![p] = "l12"]
            /\ UNCHANGED err
       ELSE /\ Raise(p, "ResolutionError")
            /\ UNCHANGED r
  /\ UNCHANGED <<env, store, argv, cps, CP, cp_bytes, idx, ghosts>>

\* line 12: cps = [m for m in LogReader(r.qlog_paths()[0]) if m.which() == 'carParams']
IsCarParams(m) == m.which = "carParams"
RECURSIVE AllMessages(_, _)
AllMessages(name, s) ==
  IF s > Len(fs[name]) THEN <<>>
  ELSE LogReader(<<name, s>>) \o AllMessages(name, s + 1)
CarParamsAnySegment(path) == SelectSeq(AllMessages(path[1], 1), IsCarParams)
CarParamsOf(path) == SelectSeq(LogReader(path), IsCarParams)
ReadLog(p) ==
  /\ pc[p] = "l12"
  /\ cps' = [cps EXCEPT ![p] = CarParamsOf(qlog_paths(r[p])[1])]
  /\ pc' = [pc EXCEPT ![p] = "l13"]
  /\ UNCHANGED <<env, store, argv, r, CP, cp_bytes, idx, err, ghosts>>

\* line 13: CP = cps[0].carParams.as_builder()
ChosenLast(list) == list[Len(list)].carParams
Chosen(list) == list[1].carParams
TakeFirst(p) ==
  /\ pc[p] = "l13"
  /\ IF Len(cps[p]) > 0
       THEN /\ CP' = [CP EXCEPT ![p] = Chosen(cps[p])]
            /\ pc' = [pc EXCEPT ![p] = "l17"]
            /\ UNCHANGED err
       ELSE /\ Raise(p, "IndexError")
            /\ UNCHANGED CP
  /\ UNCHANGED <<env, store, argv, r, cps, cp_bytes, idx, ghosts>>

\* line 15: CP = car.CarParams.new_message(); the name car is looked up first
NewMessage(p) ==
  /\ pc[p] = "l15"
  /\ IF "car" \in Imports
       THEN /\ CP' = [CP EXCEPT ![p] = DefaultRecord]
            /\ pc' = [pc EXCEPT ![p] = "l17"]
            /\ UNCHANGED err
       ELSE /\ Raise(p, "NameError")
            /\ UNCHANGED CP
  /\ UNCHANGED <<env, store, argv, r, cps, cp_bytes, idx, ghosts>>

\* line 17: cp_bytes = CP.to_bytes()
Serialize(p) ==
  /\ pc[p] = "l17"
  /\ cp_bytes' = [cp_bytes EXCEPT ![p] = to_bytes(CP[p])]
  /\ pc' = [pc EXCEPT ![p] = "l18"]
  /\ UNCHANGED <<env, store, argv, r, cps, CP, idx, err, ghosts>>

\* line 19: the value argument of put
PutValueAppend(p, key) == store[key] \o cp_bytes[p]
PutValueKeepExisting(p, key) == IF lastWriter[key] # 0 THEN store[key] ELSE cp_bytes[p]
PutValue(p, key) == cp_bytes[p]
\* lines 18-19: one iteration of  for p in (...): Params().put(p, cp_bytes)
Put(p) ==
  /\ pc[p] = "l18"
  /\ attempts' = [attempts EXCEPT ![p] = @ + 1]
  /\ IF KeyOrder[idx[p]] \in unwritable
       THEN /\ Raise(p, "StoreWriteError")
            /\ UNCHANGED <<store, idx, written, lastWriter>>
       ELSE /\ store' = ParamsPut(store, KeyOrder[idx[p]], PutValue(p, KeyOrder[idx[p]]))
            /\ written' = [written EXCEPT ![p] = Append(@, KeyOrder[idx[p]])]
            /\ lastWriter' = [lastWriter EXCEPT ![KeyOrder[idx[p]]] = p]
            /\ idx' = [idx EXCEPT ![p] = @ + 1]
            /\ pc' = [pc EXCEPT ![p] = IF idx[p] = Len(KeyOrder) THEN "done" ELSE "l18"]
            /\ UNCHANGED err
  /\ UNCHANGED <<env, argv, r, cps, CP, cp_bytes, startStore, prevArgv, runs, overlap>>

Step(p) ==
  \/ Branch(p)
  \/ NewRoute(p)
  \/ ReadLog(p)
  \/ TakeFirst(p)
  \/ NewMessage(p)
  \/ Serialize(p)
  \/ Put(p)

InitLocals ==
  /\ pc = [p \in Procs |-> "idle"]
  /\ argv = [p \in Procs |-> <<>>]
  /\ r = [p \in Procs |-> ""]
  /\ cps = [p \in Procs |-> <<>>]
  /\ CP = [p \in Procs |-> NoRecord]
  /\ cp_bytes = [p \in Procs |-> <<>>]
  /\ idx = [p \in Procs |-> 1]
  /\ err = [p \in Procs |-> "none"]
  /\ written = [p \in Procs |-> <<>>]
  /\ attempts = [p \in Procs |-> 0]
  /\ prevArgv = [p \in Procs |-> <<>>]
  /\ runs = 0
  /\ lastWriter = [k \in KeySet |-> 0]
  /\ overlap = FALSE

\* ---- single writer: invocation 1 is run again and again, one route on disk
RouteNames == {"a"}
Init ==
  /\ fs \in [RouteNames -> RouteData]
  /\ unwritable \in {{}} \cup {{k} : k \in KeySet}
  /\ store \in InitStores
  /\ startStore = [p \in Procs |-> store]
  /\ InitLocals

\* the script is started again once the run before it has ended
SeqLaunch(args) ==
  /\ runs < MaxRuns
  /\ Launch(1, args)

Next ==
  \/ \E name \in RouteNames : SeqLaunch(<<name>>)
  \/ SeqLaunch(<<>>)
  \/ \E p \in Procs : Step(p)

Spec == Init /\ [][Next]_vars

\* ---- two invocations against one store, each launched once, any interleaving
ConcArgs == {<<>>, <<"a">>, <<"b">>}
ConcInit ==
  /\ fs \in [{"a", "b"} -> ConcRouteData]
  /\ unwritable \in SUBSET KeySet
  /\ store \in InitStores
  /\ startStore = [p \in Procs |-> store]
  /\ InitLocals

ConcLaunch(p, args) ==
  /\ pc[p] = "idle"
  /\ Launch(p, args)

ConcNext ==
  \/ \E p \in Procs, args \in ConcArgs : ConcLaunch(p, args)
  \/ \E p \in Procs : Step(p)

SpecConc == ConcInit /\ [][ConcNext]_vars

\* ================================================================ claims
ClaimedOrder == <<"CarParams", "CarParamsCache", "CarParamsPersistent">>
AllKeysHold(b) == \A k \in KeySet : store[k] = b
HasRouteArg(p) == Len(argv[p]) > 1
ZeroArgs(p) == Len(argv[p]) = 1
FirstSegmentHasCarParams(name) ==
  /\ RouteResolves(name)
  /\ \E n \in 1..Len(fs[name][1]) : fs[name][1][n] = "carParams"
\* payload of the earliest carParams message of the first segment
FirstCarParamsPayload(name) ==
  LET seg == fs[name][1]
      n == CHOOSE i \in 1..Len(seg) :
             /\ seg[i] = "carParams"
             /\ \A j \in 1..(i - 1) : seg[j] # "carParams"
  IN  [mass |-> MassAt(name, 1, n)]
SomeLaterSegmentHasCarParams(name) ==
  \E s \in 2..Len(fs[name]) : \E n \in 1..Len(fs[name][s]) :
     fs[name][s][n] = "carParams"

\* C1: a run with zero arguments (and a writable store) succeeds and leaves
\* the encoding of the default record under all three keys.
C1_ZeroArgsSeedDefault ==
  (Terminated(1) /\ ZeroArgs(1) /\ unwritable = {}) =>
     (pc[1] = "done" /\ AllKeysHold(to_bytes(DefaultRecord)))

\* C2: at the end of a successful single-writer run the three keys hold
\* pairwise identical bytes, the serialisation of the record the run chose.
C2_SuccessfulRunAllKeysIdentical ==
  pc[1] = "done" =>
     /\ CP[1] # NoRecord
     /\ store["CarParams"] = store["CarParamsCache"]
     /\ store["CarParamsCache"] = store["CarParamsPersistent"]
     /\ store["CarParams"] = to_bytes(CP[1])
C2_Witness ==
  /\ pc[1] = "done"
  /\ \A k \in KeySet : startStore[1][k] # store[k]
  /\ startStore[1]["CarParams"] # startStore[1]["CarParamsPersistent"]

\* C3: with a route whose first segment has a carParams message, the run never
\* fails in selection, and on success all three keys hold the encoding of the
\* earliest such message of the first segment, whatever follows it.
C3_FirstMatchInFirstSegment ==
  (HasRouteArg(1) /\ FirstSegmentHasCarParams(argv[1][2])) =>
     /\ err[1] \notin {"ResolutionError", "IndexError", "NameError"}
     /\ pc[1] = "done" => AllKeysHold(to_bytes(FirstCarParamsPayload(argv[1][2])))
C3_Witness ==
  /\ pc[1] = "done"
  /\ HasRouteArg(1)
  /\ Len(fs["a"]) = 2
  /\ Len(fs["a"][1]) = 2
  /\ fs["a"][1][1] = "carParams"
  /\ fs["a"][1][2] = "carParams"
  /\ Len(fs["a"][2]) > 0
  /\ fs["a"][2][1] = "carParams"
  /\ store["CarParams"] = to_bytes([mass |-> 1101])

\* C4: with a route whose first segment has no carParams message, the run
\* fails with the selection error and writes nothing, even when a later
\* segment has such a message.
C4_NoCarParamsInFirstSegment ==
  (HasRouteArg(1) /\ RouteResolves(argv[1][2])
     /\ ~FirstSegmentHasCarParams(argv[1][2])) =>
     /\ pc[1] # "done"
     /\ pc[1] # "l18"
     /\ Terminated(1) => err[1] = "IndexError"
     /\ written[1] = <<>>
     /\ attempts[1] = 0
     /\ store = startStore[1]
C4_Witness ==
  /\ pc[1] = "failed"
  /\ err[1] = "IndexError"
  /\ HasRouteArg(1)
  /\ SomeLaterSegmentHasCarParams(argv[1][2])

\* C5: with a route that resolves to no segments, the run fails with the
\* resolution error before the write loop and leaves the store untouched.
C5_UnresolvedRoute ==
  (HasRouteArg(1) /\ ~RouteResolves(argv[1][2])) =>
     /\ pc[1] \in {"l9", "l11", "failed"}
     /\ Terminated(1) => err[1] = "ResolutionError"
     /\ written[1] = <<>>
     /\ attempts[1] = 0
     /\ store = startStore[1]
C5_Witness ==
  /\ pc[1] = "failed"
  /\ err[1] = "ResolutionError"
  /\ store["CarParams"] # store["CarParamsCache"]

\* C6 as stated, on the runs given a route argument (a valid route, or a route
\* that fails): every finished run has made exactly three store writes.
C6_AlwaysThreeWrites ==
  (Terminated(1) /\ HasRouteArg(1)) => Len(written[1]) = 3
\* C6 amended: a run makes exactly three store writes when it succeeds, fewer
\* when it fails, and none when it fails before the write loop.
C6_ThreeWritesIffSuccess ==
  /\ Len(written[1]) <= 3
  /\ pc[1] = "done" <=> Len(written[1]) = 3
  /\ pc[1] = "failed" => Len(written[1]) < 3
  /\ err[1] \in {"ResolutionError", "IndexError", "NameError"} => Len(written[1]) = 0
C6_Witness ==
  /\ pc[1] = "done"
  /\ Len(written[1]) = 3
  /\ runs = 2
  /\ prevArgv[1] = <<Prog>>

\* C7: a run that repeats the arguments of the run before it, against the same
\* routes and the same store permissions, leaves the store as that run left it.
C7_Idempotent ==
  (Terminated(1) /\ runs >= 2 /\ argv[1] = prevArgv[1]) => store = startStore[1]
C7_Witness ==
  /\ pc[1] = "done"
  /\ runs >= 2
  /\ argv[1] = prevArgv[1]
  /\ Len(written[1]) = 3

\* C8: the keys a run has written are a prefix of CarParams, CarParamsCache,
\* CarParamsPersistent; those hold the new bytes and the others their prior
\* values; a failing put is the last call the run makes.
C8_OrderedPrefix ==
  LET n == Len(written[1]) IN
  /\ n <= 3
  /\ written[1] = SubSeq(ClaimedOrder, 1, n)
  /\ attempts[1] = n + (IF err[1] = "StoreWriteError" THEN 1 ELSE 0)
  /\ pc[1] # "idle" =>
       \A j \in 1..3 :
          store[ClaimedOrder[j]] =
             IF j <= n THEN cp_bytes[1] ELSE startStore[1][ClaimedOrder[j]]
  /\ err[1] = "StoreWriteError" =>
       /\ pc[1] = "failed"
       /\ n < 3
       /\ ClaimedOrder[n + 1] \in unwritable
C8_Witness ==
  /\ err[1] = "StoreWriteError"
  /\ Len(written[1]) = 2
  /\ store["CarParams"] # startStore[1]["CarParams"]
  /\ store["CarParamsCache"] # startStore[1]["CarParamsCache"]
  /\ store["CarParamsPersistent"] = <<9, 0>>

\* C9: once both interleaved runs have finished, each key holds the bytes of
\* the run that wrote it last, or its initial value if neither wrote it.
C9_LastWriterWins ==
  (\A p \in Procs : Terminated(p)) =>
     \A k \in KeySet :
        IF lastWriter[k] = 0
          THEN \A p \in Procs : store[k] = startStore[p][k]
          ELSE store[k] = cp_bytes[lastWriter[k]]
C9_Witness ==
  /\ \A p \in Procs : pc[p] = "done"
  /\ overlap
  /\ cp_bytes[1] # cp_bytes[2]
  /\ lastWriter["CarParams"] = 2
  /\ lastWriter["CarParamsCache"] = 1
  /\ lastWriter["CarParamsPersistent"] = 1

\* C10: two successful runs leave the three keys not all identical only if
\* they chose different records and ran concurrently; such an outcome exists.
C10_MixedOnlyWhenConcurrent ==
  ((\A p \in Procs : pc[p] = "done")
      /\ ~(store["CarParams"] = store["CarParamsCache"]
           /\ store["CarParamsCache"] = store["CarParamsPersistent"])) =>
     /\ overlap
     /\ cp_bytes[1] # cp_bytes[2]
C10_Witness ==
  /\ \A p \in Procs : pc[p] = "done"
  /\ store["CarParams"] = cp_bytes[1]
  /\ store["CarParamsPersistent"] = cp_bytes[2]
  /\ store["CarParams"] # store["CarParamsPersistent"]
====
